---- MODULE Spec2Model ----
(***************************************************************************)
(* AthenaCore TaskMatrix (mission orchestrator, v1.1.0): the task          *)
(* registry, the control/emotional state, the tick loop with its gating,   *)
(* the timeout race, the fallback path, start/stop and the heartbeat.      *)
(*                                                                         *)
(* Time is counted in tick quanta: one unit is the 100 ms the loop sleeps  *)
(* between passes.  JavaScript objects are records whose DOMAIN is the set *)
(* of keys present, so an absent key is `undefined' and object spread is   *)
(* Spread.  User-supplied functions (executables, conditions, fallbacks)   *)
(* are named by strings; what they return is chosen when they settle.      *)
(***************************************************************************)
EXTENDS Integers, Sequences, FiniteSets, TLC

VARIABLES
    tasks,              \* this.tasks: the Map, as its values' references in insertion order
    heap,               \* the TaskDefinition objects the Map and the passes' arrays refer to
    running,            \* this.running
    ctx,                \* this.ctx (the fields the matrix writes)
    heartbeatInterval,  \* this.heartbeatInterval: 0 is null, else a timer handle
    timers,             \* the active setInterval timers: handle -> next due time
    emotionalState,     \* this.emotionalState
    lastHeartbeat,      \* this.lastHeartbeat
    kernel,             \* ctx.kernel: the set of capabilities it exposes
    loops,              \* the activations of loop(): where each is suspended
    clock,              \* Date.now(), in quanta
    calls,              \* how many calls of the public API the host has made
    invokedAt,          \* history: when each object's executable was last invoked (0: never)
    mockCalls,          \* history: run.mock.calls.length of the mock executable "mock"
    listed,             \* the array the last listTasks() returned, as references
    shown,              \* history: what the elements of that array were on return
    bridge,             \* the LLMBridge: its cache and its generate calls in flight
    model,              \* the CustomModel: isInitialized, its initialize calls in flight
    abandoned,          \* the executables whose race the timer won and that have not
                        \* settled: how many per task id and executable
    throwing,           \* the events that have a listener that throws
    out                 \* what the last step did: the API call, the user functions
                        \* invoked and the events emitted, in order

vars == <<tasks, heap, running, ctx, heartbeatInterval, timers, emotionalState,
          lastHeartbeat, kernel, loops, clock, calls, invokedAt, mockCalls,
          listed, shown, bridge, model, abandoned, throwing, out>>

(* the variables of the TaskMatrix, of the host's lists and of the LLM module *)
matrixVars == <<tasks, heap, running, ctx, heartbeatInterval, timers, emotionalState,
                lastHeartbeat, kernel, loops, invokedAt, mockCalls, abandoned, throwing>>

listVars == <<listed, shown>>

llmVars == <<bridge, model>>

raceVars == <<abandoned, throwing>>

(* ------------------------------ bounds -------------------------------- *)
MaxClock == 3
MaxCalls == 3
HbHorizon == 12

(* ------------------------- program constants --------------------------- *)
Quantum == 1
DefaultTimeout == 300
HeartbeatMs == 10
IntervalMs == 5
BootstrapInterval == 10
BootstrapTimeout == 50
Window == 12

(* ------------------------- objects and events -------------------------- *)
Has(o, k) == k \in DOMAIN o

Spread(a, b) ==
    [k \in DOMAIN a \cup DOMAIN b |-> IF k \in DOMAIN b THEN b[k] ELSE a[k]]

EmptyObject == [k \in {} |-> 0]

Min(S) == CHOOSE x \in S : \A y \in S : x <= y

Emit(event, payload) == [kind |-> "emit", event |-> event, payload |-> payload]

Call(fn, f, id, c) == [kind |-> "call", fn |-> fn, f |-> f, id |-> id, ctx |-> c]

Settle(fn, l, id, v) == [kind |-> "settle", fn |-> fn, loop |-> l, id |-> id, value |-> v]

Api(method, arg) == [kind |-> "api", method |-> method, arg |-> arg]

DefaultEmotionalState == [resonance |-> 5, mood |-> "focused", priority |-> "medium"]

(* ------------------------------ registry ------------------------------- *)
Ids(h, t) == {h[t[k]].id : k \in DOMAIN t}

IndexOf(h, t, id) == CHOOSE k \in DOMAIN t : h[t[k]].id = id

(* a registry that appends on every set, whether or not the key is present *)
MapAppend(h, t, id, ref) == Append(t, ref)

MapSet(h, t, id, ref) ==
    IF id \in Ids(h, t) THEN [t EXCEPT ![IndexOf(h, t, id)] = ref]
    ELSE Append(t, ref)

MapDelete(h, t, id) ==
    SelectSeq(t, LAMBDA r : h[r].id # id)

PriorityOrZero(task) == IF Has(task, "priority") THEN task.priority ELSE 0

BaseControlOverride(task) == [enabled |-> TRUE, priority |-> PriorityOrZero(task)]

(* a registration that supplies an executable of its own when none is given *)
RunOrNoop(task) ==
    IF Has(task, "run") THEN task.run
    ELSE IF Has(task, "handler") THEN task.handler
    ELSE "noop"

RunOf(task) ==
    IF Has(task, "run") THEN task.run
    ELSE IF Has(task, "handler") THEN task.handler
    ELSE "undefined"

EnhancedTask(task, es) ==
    Spread(task,
        [run |-> RunOf(task),
         enabled |-> IF Has(task, "enabled") THEN task.enabled # FALSE ELSE TRUE,
         emotionalContext |->
            Spread(es, IF Has(task, "emotionalContext") THEN task.emotionalContext
                       ELSE EmptyObject),
         controlOverride |->
            IF Has(task, "controlOverride")
            THEN Spread(Spread(BaseControlOverride(task), task.controlOverride),
                        [enabled |-> IF Has(task.controlOverride, "enabled")
                                     THEN task.controlOverride.enabled ELSE TRUE])
            ELSE BaseControlOverride(task)])

NewRef(h) == Min((1..(Cardinality(DOMAIN h) + 1)) \ DOMAIN h)

(* The objects still reachable: those of the Map, those of the array the   *)
(* caller holds and those a pass has yet to finish with.                   *)
Reachable(t, ls) ==
    {t[k] : k \in DOMAIN t} \cup
    {listed[k] : k \in DOMAIN listed} \cup
    UNION {{ls[l].tasks[k] : k \in {j \in DOMAIN ls[l].tasks : j >= ls[l].i}} :
           l \in DOMAIN ls}

Collect(h, t, ls) == [r \in DOMAIN h \cap Reachable(t, ls) |-> h[r]]

(* --------------------------- execution engine -------------------------- *)
Idle ==
    [pc |-> "done", tasks |-> << >>, i |-> 0, now |-> 0, taskCtx |-> EmptyObject,
     timer |-> 0, error |-> "", ran |-> << >>, events |-> << >>]

Sleep == [Idle EXCEPT !.pc = "sleep", !.timer = clock + Quantum]

Crashed == [Idle EXCEPT !.pc = "crashed"]

Step(L, o) == [loop |-> L, out |-> o]

SelectEnabled(h, t) == SelectSeq(t, LAMBDA r : h[r].enabled)

(* a sort that puts a task before the tasks of its priority already placed *)
InsertBeforeEqual(h, s, r) ==
    LET p == Cardinality({j \in DOMAIN s :
                            PriorityOrZero(h[s[j]]) > PriorityOrZero(h[r])})
    IN  SubSeq(s, 1, p) \o <<r>> \o SubSeq(s, p + 1, Len(s))

InsertByPriority(h, s, r) ==
    LET p == Cardinality({j \in DOMAIN s :
                            PriorityOrZero(h[s[j]]) >= PriorityOrZero(h[r])})
    IN  SubSeq(s, 1, p) \o <<r>> \o SubSeq(s, p + 1, Len(s))

(* a pass that takes the enabled tasks in the order of the Map, unsorted *)
MapOrder(h, s) == s

RECURSIVE SortByPriority(_, _)
SortByPriority(h, s) ==
    IF s = << >> THEN s
    ELSE InsertByPriority(h, SortByPriority(h, SubSeq(s, 1, Len(s) - 1)), s[Len(s)])

IntervalGated(task, now) ==
    /\ Has(task, "interval") /\ task.interval # 0
    /\ Has(task, "lastRun") /\ task.lastRun # 0
    /\ now - task.lastRun < task.interval

Timeout(task) ==
    IF Has(task.controlOverride, "timeout") /\ task.controlOverride.timeout # 0
    THEN task.controlOverride.timeout
    ELSE DefaultTimeout

TaskCtx(task) ==
    Spread(ctx, [emotionalState |-> task.emotionalContext,
                 controlState |-> task.controlOverride])

(* executeTask from the race on: the executable is invoked and the timer set *)
InvokeRun(L, h) ==
    LET task == h[L.tasks[L.i]]
    IN  Step([L EXCEPT !.pc = "run",
                       !.timer = clock + Timeout(task),
                       !.ran = Append(@, [id |-> task.id,
                                          priority |-> PriorityOrZero(task)])],
             <<Call("run", task.run, task.id, L.taskCtx)>>)

(* executeTask up to its first await *)
ExecuteTask(L, h) ==
    LET task == h[L.tasks[L.i]]
        L1 == [L EXCEPT !.taskCtx = TaskCtx(task)]
        conds == task.controlOverride.conditions
    IN  IF Has(task.controlOverride, "conditions")
        THEN Step([L1 EXCEPT !.pc = "ctrl"],
                  [k \in DOMAIN conds |->
                      Call("controlCondition", conds[k], task.id, L1.taskCtx)])
        ELSE InvokeRun(L1, h)

(* a for loop that goes to executeTask without asking the condition *)
EnterTaskUnasked(L, h, k) == ExecuteTask([L EXCEPT !.i = k], h)

EnterTask(L, h, k) ==
    LET task == h[L.tasks[k]]
        L1 == [L EXCEPT !.i = k]
    IN  IF Has(task, "condition")
        THEN Step([L1 EXCEPT !.pc = "cond"],
                  <<Call("condition", task.condition, task.id, ctx)>>)
        ELSE ExecuteTask(L1, h)

NextUngated(h, snap, j, now) ==
    LET S == {k \in j..Len(snap) : ~IntervalGated(h[snap[k]], now)}
    IN  IF S = {} THEN Len(snap) + 1 ELSE Min(S)

(* a for loop over this.tasks.values() itself: it also comes to the enabled *)
(* tasks set into the Map since the pass began                               *)
AdvanceLive(L, h, j) ==
    LET held == {L.tasks[i] : i \in DOMAIN L.tasks}
        L1 == [L EXCEPT !.tasks = @ \o SelectSeq(tasks, LAMBDA r : r \notin held
                                                                  /\ r \in DOMAIN h
                                                                  /\ h[r].enabled)]
        k == NextUngated(h, L1.tasks, j, L1.now)
    IN  IF k > Len(L1.tasks) THEN Step(Sleep, << >>) ELSE EnterTask(L1, h, k)

(* the for loop of a pass from its j-th task up to the next await *)
Advance(L, h, j) ==
    LET k == NextUngated(h, L.tasks, j, L.now)
    IN  IF k > Len(L.tasks) THEN Step(Sleep, << >>) ELSE EnterTask(L, h, k)

(* the top of the while loop when running is true *)
BeginPass(h, t) ==
    Advance([Idle EXCEPT !.pc = "top",
                         !.tasks = SortByPriority(h, SelectEnabled(h, t)),
                         !.i = 1,
                         !.now = clock],
            h, 1)

(* a catch block that invokes the executable again while maxRetries allows *)
CatchRetrying(L, h, error) ==
    LET task == h[L.tasks[L.i]]
        r == Advance(L, h, L.i + 1)
        tried == Cardinality({k \in DOMAIN L.ran : L.ran[k].id = task.id})
    IN  IF Has(task.controlOverride, "maxRetries")
           /\ tried <= task.controlOverride.maxRetries
        THEN InvokeRun(L, h)
        ELSE IF Has(task.controlOverride, "fallback")
        THEN Step([L EXCEPT !.pc = "fallback", !.error = error],
                  <<Call("fallback", task.controlOverride.fallback, task.id, L.taskCtx)>>)
        ELSE Step(r.loop,
                  <<Emit("task:error", [id |-> task.id, error |-> error])>> \o r.out)

(* the catch block of executeTask up to its await *)
Catch(L, h, error) ==
    LET task == h[L.tasks[L.i]]
        r == Advance(L, h, L.i + 1)
    IN  IF Has(task.controlOverride, "fallback")
        THEN Step([L EXCEPT !.pc = "fallback", !.error = error],
                  <<Call("fallback", task.controlOverride.fallback, task.id, L.taskCtx)>>)
        ELSE Step(r.loop,
                  <<Emit("task:error", [id |-> task.id, error |-> error])>> \o r.out)

(* this.emit(event, payload) in the try block of executeTask, followed by what *)
(* comes after it: emit calls the listeners of the event one after the other, *)
(* and a listener that throws takes control to the catch block. The events    *)
(* the attempt has emitted are kept while it awaits its fallback.             *)
EmitInTry(L, h, e, next) ==
    IF e.event \in throwing
    THEN LET c == Catch(L, h, "listener threw")
         IN  Step([c.loop EXCEPT !.events = IF c.loop.pc = "fallback" THEN <<e.event>>
                                           ELSE << >>],
                  <<e, [kind |-> "throw", error |-> "listener threw"]>> \o c.out)
    ELSE Step(next.loop, <<e>> \o next.out)

(* a catch block in which a fallback that resolved stands for the error *)
FallbackSuppressesError(id, v, error) ==
    IF v = "resolve"
    THEN <<Emit("task:fallback:executed", [id |-> id])>>
    ELSE <<Emit("task:fallback:failed", [id |-> id]),
           Emit("task:error", [id |-> id, error |-> error])>>

FallbackEvents(id, v, error) ==
    <<Emit(IF v = "resolve" THEN "task:fallback:executed" ELSE "task:fallback:failed",
           [id |-> id]),
      Emit("task:error", [id |-> id, error |-> error])>>

(* a gate that one true condition opens *)
SomeConditionMet(results) == \E k \in DOMAIN results : results[k] = "true"

ConditionsMet(results) == \A k \in DOMAIN results : results[k] = "true"

(* a success that leaves the task as it was *)
LastRunUnwritten(h, ref, t) == h

SetLastRun(h, ref, t) == [h EXCEPT ![ref] = Spread(@, [lastRun |-> t])]

(* ------------------------------- inputs -------------------------------- *)
TaskIds == {"a", "b"}

TaskInputs ==
    { [id |-> "a", run |-> "runA", priority |-> 2, interval |-> 3,
       condition |-> "condA"],
      [id |-> "b", handler |-> "runB",
       controlOverride |-> [enabled |-> TRUE, priority |-> 1, timeout |-> 1,
                            fallback |-> "fbB", conditions |-> <<"c1", "c2">>,
                            maxRetries |-> 3]],
      [id |-> "b", run |-> "runB2", priority |-> 3, interval |-> 1,
       emotionalContext |-> [resonance |-> 9, mood |-> "analytical",
                             priority |-> "high"]],
      [id |-> "a", name |-> "no executable"] }

OverrideInputs == { [enabled |-> FALSE], [timeout |-> 2, priority |-> 5] }

EmotionalInputs == { [mood |-> "custom", customMood |-> "calm"] }

Outcomes == {"true", "false", "throw"}

Settlements == {"resolve", "reject"}

(* ----------------------------- public API ------------------------------ *)
Called == calls < MaxCalls /\ calls' = calls + 1

(* the history of invocations, kept for the objects still reachable *)
Track(h, L) ==
    [r \in DOMAIN h |->
        IF L.pc = "run" /\ L.tasks[L.i] = r THEN clock
        ELSE IF r \in DOMAIN invokedAt THEN invokedAt[r] ELSE 0]

(* the calls of the mock executable: a step that leaves the loop at the race *)
(* has invoked the executable of the task it is at                           *)
Counted(h, L) ==
    IF L.pc = "run" /\ h[L.tasks[L.i]].run = "mock" THEN mockCalls + 1 ELSE mockCalls

registerTask(task) ==
    /\ Called
    /\ IF RunOf(task) = "undefined"
       THEN /\ out' = <<Api("registerTask", task),
                        [kind |-> "throw",
                         error |-> "Task must have a run or handler function"]>>
            /\ UNCHANGED <<tasks, heap, invokedAt,
                   mockCalls>>
       ELSE LET ref == NewRef(heap)
                h1 == [r \in DOMAIN heap \cup {ref} |->
                         IF r = ref THEN EnhancedTask(task, emotionalState)
                         ELSE heap[r]]
            IN  /\ tasks' = MapSet(h1, tasks, task.id, ref)
                /\ heap' = Collect(h1, tasks', loops)
                /\ invokedAt' = Track(heap', Idle)
                /\ UNCHANGED mockCalls
                /\ out' = <<Api("registerTask", task), Emit("task:registered", task.id)>>
    /\ UNCHANGED <<running, ctx, heartbeatInterval, timers, emotionalState,
                   lastHeartbeat, kernel, loops, clock>>
    /\ UNCHANGED <<listVars, llmVars, raceVars>>

unregisterTask(taskId) ==
    /\ Called
    /\ tasks' = MapDelete(heap, tasks, taskId)
    /\ heap' = Collect(heap, tasks', loops)
    /\ invokedAt' = Track(heap', Idle)
    /\ UNCHANGED mockCalls
    /\ out' = <<Api("unregisterTask", taskId), Emit("task:unregistered", taskId)>>
    /\ UNCHANGED <<running, ctx, heartbeatInterval, timers, emotionalState,
                   lastHeartbeat, kernel, loops, clock>>
    /\ UNCHANGED <<listVars, llmVars, raceVars>>

listTasks ==
    /\ Called
    /\ listed' = tasks
    /\ shown' = [k \in DOMAIN tasks |-> heap[tasks[k]]]
    /\ out' = <<Api("listTasks", << >>),
                [kind |-> "return", value |-> listed']>>
    /\ UNCHANGED <<matrixVars, clock, llmVars>>

(* an override that starts again from the base ControlOverride *)
ReplacedControl(task, override) == Spread(BaseControlOverride(task), override)

OverriddenControl(task, override) ==
    LET co == task.controlOverride
    IN  Spread(Spread(co, override),
               [enabled |-> IF Has(override, "enabled") THEN override.enabled
                            ELSE IF Has(co, "enabled") THEN co.enabled ELSE TRUE,
                priority |-> IF Has(override, "priority") THEN override.priority
                             ELSE IF Has(co, "priority") THEN co.priority
                             ELSE PriorityOrZero(task)])

overrideTaskControl(taskId, override) ==
    /\ Called
    /\ IF taskId \in Ids(heap, tasks)
       THEN LET ref == tasks[IndexOf(heap, tasks, taskId)]
            IN  /\ heap' = [heap EXCEPT ![ref] =
                              Spread(@, [controlOverride |->
                                            OverriddenControl(@, override)])]
                /\ out' = <<Api("overrideTaskControl", <<taskId, override>>),
                            Emit("task:control:updated",
                                 [taskId |-> taskId, override |-> override])>>
       ELSE /\ out' = <<Api("overrideTaskControl", <<taskId, override>>)>>
            /\ UNCHANGED heap
    /\ UNCHANGED <<tasks, running, ctx, heartbeatInterval, timers, emotionalState,
                   lastHeartbeat, kernel, loops, clock, invokedAt,
                   mockCalls>>
    /\ UNCHANGED <<listVars, llmVars, raceVars>>

(* an update that also rewrites the emotionalContext of the registered tasks *)
updateEmotionalStateRetroactive(state) ==
    /\ Called
    /\ emotionalState' = Spread(emotionalState, state)
    /\ ctx' = Spread(ctx, [emotionalState |-> emotionalState'])
    /\ heap' = [r \in DOMAIN heap |->
                  Spread(heap[r], [emotionalContext |->
                                      Spread(heap[r].emotionalContext, state)])]
    /\ out' = <<Api("updateEmotionalState", state),
                Emit("emotional:updated", emotionalState')>>
    /\ UNCHANGED <<tasks, running, heartbeatInterval, timers, lastHeartbeat,
                   kernel, loops, clock, invokedAt,
                   mockCalls>>
    /\ UNCHANGED <<listVars, llmVars, raceVars>>

updateEmotionalState(state) ==
    /\ Called
    /\ emotionalState' = Spread(emotionalState, state)
    /\ ctx' = Spread(ctx, [emotionalState |-> emotionalState'])
    /\ out' = <<Api("updateEmotionalState", state),
                Emit("emotional:updated", emotionalState')>>
    /\ UNCHANGED <<tasks, heap, running, heartbeatInterval, timers, lastHeartbeat,
                   kernel, loops, clock, invokedAt,
                   mockCalls>>
    /\ UNCHANGED <<listVars, llmVars, raceVars>>

FreeLoops == {l \in DOMAIN loops : loops[l].pc \in {"done", "crashed"}}

start ==
    /\ Called
    /\ IF running
       THEN /\ out' = <<Api("start", << >>)>>
            /\ UNCHANGED <<tasks, heap, running, ctx, heartbeatInterval, timers,
                           emotionalState, lastHeartbeat, kernel, loops, clock,
                           invokedAt,
                   mockCalls>>
       ELSE
         /\ LET l == IF FreeLoops # {} THEN Min(FreeLoops) ELSE Len(loops) + 1
                handle == Min((1..(Cardinality(DOMAIN timers) + 1)) \ DOMAIN timers)
                r == BeginPass(heap, tasks)
            IN  /\ running' = TRUE
                /\ heartbeatInterval' = handle
                /\ timers' = [t \in DOMAIN timers \cup {handle} |->
                                IF t = handle THEN clock + HeartbeatMs ELSE timers[t]]
                /\ loops' = [k \in DOMAIN loops \cup {l} |->
                               IF k = l THEN r.loop ELSE loops[k]]
                /\ heap' = Collect(heap, tasks, loops')
                /\ invokedAt' = Track(heap', r.loop)
                /\ mockCalls' = Counted(heap', r.loop)
                /\ out' = <<Api("start", << >>), Emit("matrix:started", << >>)>> \o r.out
         /\ UNCHANGED <<tasks, ctx, emotionalState, lastHeartbeat, kernel, clock>>
    /\ UNCHANGED <<listVars, llmVars, raceVars>>

(* a stop() that leaves the heartbeat timer set *)
stopKeepingTimer ==
    /\ calls < MaxCalls /\ calls' = calls + 1
    /\ running' = FALSE
    /\ out' = <<[kind |-> "api", method |-> "stop", arg |-> << >>],
                [kind |-> "emit", event |-> "matrix:stopped", payload |-> << >>]>>
    /\ UNCHANGED <<tasks, heap, ctx, heartbeatInterval, timers, emotionalState,
                   lastHeartbeat, kernel, loops, clock, invokedAt,
                   mockCalls>>
    /\ UNCHANGED <<listVars, llmVars, raceVars>>

(* a stop() that abandons the passes in progress *)
stopAbandoning ==
    /\ calls < MaxCalls /\ calls' = calls + 1
    /\ running' = FALSE
    /\ timers' = [t \in DOMAIN timers \ {heartbeatInterval} |-> timers[t]]
    /\ loops' = [l \in DOMAIN loops |->
                   [pc |-> "done", tasks |-> << >>, i |-> 0, now |-> 0,
                    taskCtx |-> [k \in {} |-> 0], timer |-> 0, error |-> "",
                    ran |-> << >>, events |-> << >>]]
    /\ out' = <<[kind |-> "api", method |-> "stop", arg |-> << >>],
                [kind |-> "emit", event |-> "matrix:stopped", payload |-> << >>]>>
    /\ UNCHANGED <<tasks, heap, ctx, heartbeatInterval, emotionalState,
                   lastHeartbeat, kernel, clock, invokedAt,
                   mockCalls>>
    /\ UNCHANGED <<listVars, llmVars, raceVars>>

stop ==
    /\ Called
    /\ running' = FALSE
    /\ timers' = [t \in DOMAIN timers \ {heartbeatInterval} |-> timers[t]]
    /\ out' = <<Api("stop", << >>), Emit("matrix:stopped", << >>)>>
    /\ UNCHANGED <<tasks, heap, ctx, heartbeatInterval, emotionalState,
                   lastHeartbeat, kernel, loops, clock, invokedAt,
                   mockCalls>>
    /\ UNCHANGED <<listVars, llmVars, raceVars>>

HeartbeatOut ==
    <<Emit("heartbeat", [timestamp |-> clock])>> \o
    (IF "selfHeal" \in kernel
     THEN <<Call("selfHeal", "kernel.selfHeal", "", EmptyObject)>> ELSE << >>)

heartbeat ==
    /\ Called
    /\ lastHeartbeat' = clock
    /\ out' = <<Api("heartbeat", << >>)>> \o HeartbeatOut
    /\ UNCHANGED <<tasks, heap, running, ctx, heartbeatInterval, timers,
                   emotionalState, kernel, loops, clock, invokedAt,
                   mockCalls>>
    /\ UNCHANGED <<listVars, llmVars, raceVars>>

(* a heartbeat driven from the tick loop: it waits while the loop awaits an *)
(* executable or a fallback                                                *)
HeartbeatWhenLoopFree(handle) ==
    /\ handle \in DOMAIN timers
    /\ clock >= timers[handle]
    /\ \A l \in DOMAIN loops : loops[l].pc \notin {"run", "fallback"}
    /\ timers' = [timers EXCEPT ![handle] = @ + HeartbeatMs]
    /\ lastHeartbeat' = clock
    /\ out' = <<[kind |-> "timer", handle |-> handle],
                [kind |-> "emit", event |-> "heartbeat",
                 payload |-> [timestamp |-> clock]]>>
    /\ UNCHANGED <<tasks, heap, running, ctx, heartbeatInterval, emotionalState,
                   kernel, loops, clock, calls, invokedAt,
                   mockCalls>>
    /\ UNCHANGED <<listVars, llmVars, raceVars>>

(* the setInterval callback of start() *)
HeartbeatTimer(handle) ==
    /\ handle \in DOMAIN timers
    /\ clock >= timers[handle]
    /\ timers' = [timers EXCEPT ![handle] = @ + HeartbeatMs]
    /\ lastHeartbeat' = clock
    /\ out' = <<[kind |-> "timer", handle |-> handle]>> \o HeartbeatOut
    /\ UNCHANGED <<tasks, heap, running, ctx, heartbeatInterval, emotionalState,
                   kernel, loops, clock, calls, invokedAt,
                   mockCalls>>
    /\ UNCHANGED <<listVars, llmVars, raceVars>>

(* ------------------------ the steps of loop() -------------------------- *)
LoopMoves(l, h, r, first) ==
    /\ loops' = [loops EXCEPT ![l] = r.loop]
    /\ heap' = Collect(h, tasks, loops')
    /\ invokedAt' = Track(heap', r.loop)
    /\ mockCalls' = Counted(heap', r.loop)
    /\ out' = first \o r.out
    /\ UNCHANGED <<tasks, running, ctx, heartbeatInterval, timers, emotionalState,
                   lastHeartbeat, kernel, clock, calls>>
    /\ UNCHANGED <<listVars, llmVars, throwing>>

LoopStep(l, h, r, first) == LoopMoves(l, h, r, first) /\ UNCHANGED abandoned

(* the promise of task.run(taskCtx) once the race has settled without it *)
Invocation(task) == [id |-> task.id, run |-> task.run]

Abandon(inv) ==
    [k \in DOMAIN abandoned \cup {inv} |->
        IF k = inv THEN (IF inv \in DOMAIN abandoned THEN abandoned[inv] ELSE 0) + 1
        ELSE abandoned[k]]

(* the sleep between passes ends: the while condition is read *)
Wake(l) ==
    /\ l \in DOMAIN loops
    /\ loops[l].pc = "sleep"
    /\ clock >= loops[l].timer
    /\ LoopStep(l, heap,
                IF running THEN BeginPass(heap, tasks) ELSE Step(Idle, << >>),
                <<[kind |-> "wake", loop |-> l, running |-> running]>>)

(* await task.condition(this.ctx) in loop(): outside every try *)
ConditionSettles(l, v) ==
    /\ loops[l].pc = "cond"
    /\ LET L == loops[l]
           id == heap[L.tasks[L.i]].id
       IN  LoopStep(l, heap,
                    CASE v = "true" -> ExecuteTask(L, heap)
                      [] v = "false" -> Advance(L, heap, L.i + 1)
                      [] OTHER -> Step(Crashed, << >>),
                    <<Settle("condition", l, id, v)>>)

(* await Promise.all(conditions) in executeTask *)
ControlConditionsSettle(l, results) ==
    /\ loops[l].pc = "ctrl"
    /\ DOMAIN results = DOMAIN loops[l].taskCtx.controlState.conditions
    /\ LET L == loops[l]
           id == heap[L.tasks[L.i]].id
           next == Advance(L, heap, L.i + 1)
       IN  LoopStep(l, heap,
                    IF \E k \in DOMAIN results : results[k] = "throw"
                    THEN Catch(L, heap, "condition threw")
                    ELSE IF ConditionsMet(results)
                    THEN InvokeRun(L, heap)
                    ELSE EmitInTry(L, heap,
                                   Emit("task:skipped",
                                        [id |-> id,
                                         reason |-> "control_conditions_not_met"]),
                                   next),
                    <<Settle("controlConditions", l, id, results)>>)

(* the executable settles before the timer fires *)
RunSettles(l, v) ==
    /\ loops[l].pc = "run"
    /\ LET L == loops[l]
           ref == L.tasks[L.i]
           id == heap[ref].id
           h1 == SetLastRun(heap, ref, clock)
           next == Advance(L, h1, L.i + 1)
       IN  IF v = "resolve"
           THEN LoopStep(l, h1,
                         EmitInTry(L, h1,
                                   Emit("task:ran", [id |-> id, result |-> "result"]),
                                   next),
                         <<Settle("run", l, id, v)>>)
           ELSE LoopStep(l, heap, Catch(L, heap, "rejected"),
                         <<Settle("run", l, id, v)>>)

(* the timer of the race fires first *)
TimerWins(l) ==
    /\ l \in DOMAIN loops
    /\ loops[l].pc = "run"
    /\ clock >= loops[l].timer
    /\ LET L == loops[l]
           id == heap[L.tasks[L.i]].id
       IN  /\ LoopMoves(l, heap, Catch(L, heap, "Task timeout"),
                        <<Settle("timer", l, id, "reject")>>)
           /\ abandoned' = Abandon(Invocation(heap[loops[l].tasks[loops[l].i]]))

(* await fallback(taskCtx) in the catch block *)
FallbackSettles(l, v) ==
    /\ loops[l].pc = "fallback"
    /\ LET L == loops[l]
           id == heap[L.tasks[L.i]].id
           next == Advance([L EXCEPT !.events = << >>], heap, L.i + 1)
       IN  LoopStep(l, heap,
                    Step(next.loop, FallbackEvents(id, v, L.error) \o next.out),
                    <<Settle("fallback", l, id, v)>>)

Tick ==
    /\ clock < MaxClock
    /\ clock' = clock + 1
    /\ out' = << >>
    /\ UNCHANGED <<tasks, heap, running, ctx, heartbeatInterval, timers,
                   emotionalState, lastHeartbeat, kernel, loops, calls, invokedAt,
                   mockCalls>>
    /\ UNCHANGED <<listVars, llmVars, raceVars>>

(* ------------------------------ CustomModel ---------------------------- *)
LoadingMs == 1

Return(value) == [kind |-> "return", value |-> value]

Throw(error) == [kind |-> "throw", error |-> error]

NewModel ==
    [isInitialized |-> FALSE, parameters |-> [layers |-> 12, version |-> "2.0.0"],
     inits |-> << >>, completed |-> 0]

(* initialize() up to the await of the loading timer: the activation waits, *)
(* isInitialized is written when its timer fires                            *)
Initialize(m, by) ==
    [m EXCEPT !.inits = Append(@, [by |-> by, due |-> clock + LoadingMs])]

(* how a call of CustomModel.generate settles: decided by the test on entry *)
ModelGenerate(m, request) ==
    IF ~m.isInitialized THEN Throw("Model not initialized")
    ELSE IF ~Has(request, "prompt") THEN Throw("Generation failed")
    ELSE Return("response")

ParameterInputs == { [layers |-> 24] }

ModelRequests == { [prompt |-> "test"], [parameters |-> <<<<"maxTokens", 5>>>>] }

modelInitialize ==
    /\ Called
    /\ model' = Initialize(model, "initialize")
    /\ out' = <<Api("model.initialize", << >>)>>
    /\ UNCHANGED <<clock, bridge, listVars, matrixVars>>

updateParameters(parameters) ==
    /\ Called
    /\ model' = Initialize([model EXCEPT !.parameters = Spread(@, parameters),
                                         !.isInitialized = FALSE],
                           "updateParameters")
    /\ out' = <<Api("model.updateParameters", parameters)>>
    /\ UNCHANGED <<clock, bridge, listVars, matrixVars>>

modelGenerate(request) ==
    /\ Called
    /\ out' = <<Api("model.generate", request), ModelGenerate(model, request)>>
    /\ UNCHANGED <<clock, model, bridge, listVars, matrixVars>>

(* ------------------------------- LLMBridge ----------------------------- *)
DefaultTtl == 3000

ConfigTtl == 1

BridgeConfig == [cache |-> [enabled |-> TRUE, ttl |-> ConfigTtl, maxSize |-> 1000]]

NewBridge ==
    [config |-> BridgeConfig, isInitialized |-> FALSE,
     initializationPromise |-> "undefined", cache |-> EmptyObject,
     stats |-> [totalRequests |-> 0, cacheHits |-> 0, errors |-> 0],
     waiting |-> << >>, flights |-> << >>,
     modelCalls |-> 0, seen |-> {}, successes |-> {}]

(* JSON.stringify of an object: the properties that are present, in their order; *)
(* a nested object is the sequence of its properties in insertion order          *)
Property(o, k) == IF Has(o, k) THEN <<<<k, o[k]>>>> ELSE << >>

Stringify(o, keys) ==
    IF keys = << >> THEN << >>
    ELSE Property(o, keys[1]) \o
         (IF Len(keys) = 1 THEN << >> ELSE
          Property(o, keys[2]) \o
          (IF Len(keys) = 2 THEN << >> ELSE Property(o, keys[3])))

Base64(string) == <<"base64", string>>

generateCacheKey(request) ==
    Base64(Stringify(request, <<"prompt", "parameters", "context">>))

(* the same prompt, parameters and context, whatever the order of properties *)
Properties(o, k) == IF Has(o, k) THEN {o[k][i] : i \in DOMAIN o[k]} ELSE {}

SameRequest(r, q) ==
    /\ DOMAIN r = DOMAIN q
    /\ Has(r, "prompt") => r.prompt = q.prompt
    /\ Properties(r, "parameters") = Properties(q, "parameters")
    /\ Properties(r, "context") = Properties(q, "context")

Ttl(config) ==
    IF Has(config, "cache") /\ config.cache.ttl # 0 THEN config.cache.ttl
    ELSE DefaultTtl

Expired(entry, now) == now - entry.timestamp > entry.ttl

cacheResponse(b, cacheKey, response) ==
    [k \in DOMAIN b.cache \cup {cacheKey} |->
        IF k = cacheKey
        THEN [response |-> response, timestamp |-> clock, ttl |-> Ttl(b.config)]
        ELSE b.cache[k]]

CacheDelete(cache, cacheKey) == [k \in DOMAIN cache \ {cacheKey} |-> cache[k]]

(* generate from its try block to its return or to the await of the model *)
Lookup(b, m, request) ==
    LET cacheKey == generateCacheKey(request)
        started == Emit("request:started", [timestamp |-> clock])
        b1 == [b EXCEPT !.seen = @ \cup {request}]
    IN  IF cacheKey \in DOMAIN b.cache /\ ~Expired(b.cache[cacheKey], clock)
        THEN [bridge |-> [b1 EXCEPT !.stats.totalRequests = @ + 1,
                                    !.stats.cacheHits = @ + 1],
              out |-> <<started, Emit("request:cached", [cacheKey |-> cacheKey]),
                        Return(b.cache[cacheKey].response)>>]
        ELSE [bridge |-> [b1 EXCEPT !.cache = CacheDelete(@, cacheKey),
                                    !.modelCalls = @ + 1,
                                    !.flights =
                                       Append(@, [request |-> request,
                                                  cacheKey |-> cacheKey,
                                                  call |-> b.modelCalls + 1,
                                                  outcome |-> ModelGenerate(m, request)])],
              out |-> <<started, Call("model.generate", "CustomModel.generate", "",
                                      request)>>]

(* the generate calls that awaited the initialization go on, in their order *)
RECURSIVE Resume(_, _, _)
Resume(b, m, requests) ==
    IF requests = << >> THEN [bridge |-> b, out |-> << >>]
    ELSE LET r == Lookup(b, m, Head(requests))
             rest == Resume(r.bridge, m, Tail(requests))
         IN  [bridge |-> rest.bridge,
              out |-> <<[kind |-> "resume", request |-> Head(requests)]>>
                      \o r.out \o rest.out]

BridgeRequests ==
    { [prompt |-> "p", parameters |-> <<<<"temperature", 7>>, <<"maxTokens", 100>>>>],
      [prompt |-> "p", parameters |-> <<<<"maxTokens", 100>>, <<"temperature", 7>>>>],
      [parameters |-> <<<<"maxTokens", 5>>>>] }

generate(request) ==
    /\ Called
    /\ IF ~bridge.isInitialized
       THEN /\ bridge' = [bridge EXCEPT !.initializationPromise = "pending",
                                         !.waiting = Append(@, request)]
            /\ model' = IF bridge.initializationPromise = "undefined"
                        THEN Initialize(model, "bridge") ELSE model
            /\ out' = <<Api("generate", request)>>
       ELSE LET r == Lookup(bridge, model, request)
            IN  /\ bridge' = r.bridge
                /\ model' = model
                /\ out' = <<Api("generate", request)>> \o r.out
    /\ UNCHANGED <<clock, listVars, matrixVars>>

(* await this.model.generate(request) settles *)
ModelSettles(k) ==
    /\ k \in DOMAIN bridge.flights
    /\ LET f == bridge.flights[k]
           rest == SubSeq(bridge.flights, 1, k - 1)
                   \o SubSeq(bridge.flights, k + 1, Len(bridge.flights))
           response == [call |-> f.call]
       IN  IF f.outcome.kind = "return"
           THEN /\ bridge' = [bridge EXCEPT
                                 !.flights = rest,
                                 !.cache = cacheResponse(bridge, f.cacheKey, response),
                                 !.stats.totalRequests = @ + 1,
                                 !.successes = @ \cup {[request |-> f.request,
                                                        response |-> response,
                                                        at |-> clock]}]
                /\ out' = <<Settle("model.generate", 0, "", "resolve"),
                            Emit("request:completed", [call |-> f.call]),
                            Return(response)>>
           ELSE /\ bridge' = [bridge EXCEPT !.flights = rest,
                                            !.stats.errors = @ + 1]
                /\ out' = <<Settle("model.generate", 0, "", "reject"),
                            Emit("request:error", [error |-> f.outcome.error]),
                            f.outcome>>
    /\ UNCHANGED <<clock, calls, model, listVars, matrixVars>>

clearCache ==
    /\ Called
    /\ bridge' = [bridge EXCEPT !.cache = EmptyObject, !.seen = {}, !.successes = {}]
    /\ out' = <<Api("clearCache", << >>), Emit("cache:cleared", [timestamp |-> clock])>>
    /\ UNCHANGED <<clock, model, listVars, matrixVars>>

(* the timer of simulateModelLoading fires for the oldest initialize() *)
LoadingTimer ==
    /\ model.inits # << >>
    /\ clock >= Head(model.inits).due
    /\ LET m1 == [model EXCEPT !.inits = Tail(@), !.isInitialized = TRUE,
                               !.completed = @ + 1]
           first == <<[kind |-> "timer", handle |-> "loading"],
                      Settle("model.initialize", 0, Head(model.inits).by, "resolve")>>
       IN  /\ model' = m1
           /\ IF Head(model.inits).by = "bridge"
              THEN LET r == Resume([bridge EXCEPT !.isInitialized = TRUE,
                                                  !.initializationPromise = "resolved",
                                                  !.waiting = << >>],
                                   m1, bridge.waiting)
                   IN  /\ bridge' = r.bridge
                       /\ out' = first
                                 \o <<Emit("model:initialized", [timestamp |-> clock])>>
                                 \o r.out
              ELSE /\ bridge' = bridge
                   /\ out' = first
    /\ UNCHANGED <<clock, calls, listVars, matrixVars>>

(* --------------------------- specifications ---------------------------- *)
Init ==
    /\ tasks = << >>
    /\ heap = EmptyObject
    /\ running = FALSE
    /\ ctx = [emotionalState |-> DefaultEmotionalState]
    /\ heartbeatInterval = 0
    /\ timers = EmptyObject
    /\ emotionalState = DefaultEmotionalState
    /\ lastHeartbeat = 0
    /\ kernel = {"selfHeal"}
    /\ loops = << >>
    /\ clock = 1
    /\ calls = 0
    /\ invokedAt = EmptyObject
    /\ mockCalls = 0
    /\ listed = << >>
    /\ abandoned = EmptyObject
    /\ throwing = {}
    /\ shown = << >>
    /\ bridge = NewBridge
    /\ model = NewModel
    /\ out = << >>

ResultsOf(l) ==
    IF loops[l].pc = "ctrl"
    THEN [DOMAIN loops[l].taskCtx.controlState.conditions -> Outcomes]
    ELSE {}

Next ==
    \/ \E task \in TaskInputs : registerTask(task)
    \/ \E id \in TaskIds : unregisterTask(id)
    \/ \E id \in TaskIds, o \in OverrideInputs : overrideTaskControl(id, o)
    \/ \E s \in EmotionalInputs : updateEmotionalState(s)
    \/ start
    \/ stop
    \/ heartbeat
    \/ \E l \in DOMAIN loops : Wake(l)
    \/ \E l \in DOMAIN loops, v \in Outcomes : ConditionSettles(l, v)
    \/ \E l \in DOMAIN loops : \E results \in ResultsOf(l) :
          ControlConditionsSettle(l, results)
    \/ \E l \in DOMAIN loops, v \in Settlements : RunSettles(l, v)
    \/ \E l \in DOMAIN loops : TimerWins(l)
    \/ \E l \in DOMAIN loops, v \in Settlements : FallbackSettles(l, v)
    \/ Tick

Spec == Init /\ [][Next]_vars

(* a host that calls start() only once every earlier loop() has returned *)
startWhenQuiet == FreeLoops = DOMAIN loops /\ start

NextOneLoop ==
    \/ \E task \in TaskInputs : registerTask(task)
    \/ \E id \in TaskIds : unregisterTask(id)
    \/ \E id \in TaskIds, o \in OverrideInputs : overrideTaskControl(id, o)
    \/ \E s \in EmotionalInputs : updateEmotionalState(s)
    \/ startWhenQuiet
    \/ stop
    \/ heartbeat
    \/ \E l \in DOMAIN loops : Wake(l)
    \/ \E l \in DOMAIN loops, v \in Outcomes : ConditionSettles(l, v)
    \/ \E l \in DOMAIN loops : \E results \in ResultsOf(l) :
          ControlConditionsSettle(l, results)
    \/ \E l \in DOMAIN loops, v \in Settlements : RunSettles(l, v)
    \/ \E l \in DOMAIN loops : TimerWins(l)
    \/ \E l \in DOMAIN loops, v \in Settlements : FallbackSettles(l, v)
    \/ Tick

SpecOneLoop == Init /\ [][NextOneLoop]_vars

(* the sleep of loop l has run out: the enabling condition of Wake(l), which *)
(* always changes the position of the loop                                  *)
WakeDue(l) == l \in DOMAIN loops /\ loops[l].pc = "sleep" /\ clock >= loops[l].timer

(* Time passes and due timers fire (the timer of the race, the sleep between *)
(* passes); nothing makes the host call the API or a user-supplied function  *)
(* settle. The last conjunct is weak fairness of Wake(l), written out with   *)
(* its enabling condition.                                                   *)
Fairness ==
    /\ WF_vars(Tick)
    /\ \A l \in 1..MaxCalls :
          /\ WF_vars(TimerWins(l))
          /\ ([]<>(~WakeDue(l)) \/ []<><<Wake(l)>>_vars)

FairSpec == Init /\ [][Next]_vars /\ Fairness

(* ----------------------- the heartbeat over a period -------------------- *)
(* The tasks of this part: one whose executable fails or times out and whose *)
(* fallback does not settle, so that the loop stays suspended on it, and one *)
(* that is disabled.                                                         *)
HbTaskInputs ==
    { [id |-> "b", handler |-> "runB",
       controlOverride |-> [enabled |-> TRUE, priority |-> 1, timeout |-> 1,
                            fallback |-> "fbB"]],
      [id |-> "a", run |-> "runA", enabled |-> FALSE] }

(* a timer that is due fires before the clock goes on: no step of the model *)
(* keeps the event loop busy                                                *)
TimerDue ==
    \/ \E handle \in DOMAIN timers : clock >= timers[handle]
    \/ \E l \in DOMAIN loops : loops[l].pc \in {"sleep", "run"} /\ clock >= loops[l].timer

TickHb ==
    /\ clock < HbHorizon
    /\ ~TimerDue
    /\ clock' = clock + 1
    /\ out' = << >>
    /\ UNCHANGED <<tasks, heap, running, ctx, heartbeatInterval, timers,
                   emotionalState, lastHeartbeat, kernel, loops, calls, invokedAt,
                   mockCalls>>
    /\ UNCHANGED <<listVars, llmVars, raceVars>>

NextHb ==
    \/ \E task \in HbTaskInputs : registerTask(task)
    \/ start
    \/ stop
    \/ heartbeat
    \/ \E handle \in DOMAIN timers : HeartbeatTimer(handle)
    \/ \E l \in DOMAIN loops : Wake(l)
    \/ \E l \in DOMAIN loops : RunSettles(l, "reject")
    \/ \E l \in DOMAIN loops : TimerWins(l)
    \/ TickHb

SpecHb == Init /\ [][NextHb]_vars

FairSpecHb ==
    /\ Init /\ [][NextHb]_vars
    /\ WF_vars(TickHb)
    /\ \A handle \in 1..MaxCalls : WF_vars(HeartbeatTimer(handle))

(* -------------------- the scenario 'respects interval' ------------------ *)
ScenarioInputs == { [id |-> "interval-task", run |-> "mock", interval |-> IntervalMs] }

TickWindow ==
    /\ clock < 1 + Window
    /\ clock' = clock + 1
    /\ out' = << >>
    /\ UNCHANGED <<tasks, heap, running, ctx, heartbeatInterval, timers,
                   emotionalState, lastHeartbeat, kernel, loops, calls, invokedAt,
                   mockCalls>>
    /\ UNCHANGED <<listVars, llmVars, raceVars>>

NextScenario ==
    \/ \E task \in ScenarioInputs : registerTask(task)
    \/ start
    \/ \E l \in DOMAIN loops : Wake(l)
    \/ \E l \in DOMAIN loops, v \in Settlements : RunSettles(l, v)
    \/ TickWindow

SpecScenario == Init /\ [][NextScenario]_vars

(* --------------------------- bootstrapTaskMatrix ------------------------ *)
BootstrapTask ==
    [id |-> "heartbeat", run |-> "kernel.heartbeat", interval |-> BootstrapInterval,
     enabled |-> TRUE,
     emotionalContext |-> [resonance |-> 9, mood |-> "focused", priority |-> "critical"],
     controlOverride |-> [enabled |-> TRUE, priority |-> 100, maxRetries |-> 3,
                          timeout |-> BootstrapTimeout, fallback |-> "kernel.recover"]]

(* a bootstrap that starts the loop of the orchestrator it returns *)
InitBootstrapLooping ==
    /\ tasks = <<1>>
    /\ heap = [r \in {1} |-> EnhancedTask(BootstrapTask, DefaultEmotionalState)]
    /\ running = TRUE
    /\ ctx = [emotionalState |-> DefaultEmotionalState]
    /\ heartbeatInterval = 0
    /\ timers = EmptyObject
    /\ emotionalState = DefaultEmotionalState
    /\ lastHeartbeat = 0
    /\ kernel = {"selfHeal"}
    /\ loops = <<[Idle EXCEPT !.pc = "sleep", !.timer = 2]>>
    /\ clock = 1
    /\ calls = 0
    /\ invokedAt = [r \in {1} |-> 0]
    /\ mockCalls = 0
    /\ listed = << >>
    /\ abandoned = EmptyObject
    /\ throwing = {}
    /\ shown = << >>
    /\ bridge = NewBridge
    /\ model = NewModel
    /\ out = <<Api("bootstrapTaskMatrix", << >>), Emit("task:registered", "heartbeat")>>

(* the orchestrator bootstrapTaskMatrix returns: constructed, the default task *)
(* registered, nothing started                                                 *)
InitBootstrap ==
    /\ tasks = <<1>>
    /\ heap = [r \in {1} |-> EnhancedTask(BootstrapTask, DefaultEmotionalState)]
    /\ running = FALSE
    /\ ctx = [emotionalState |-> DefaultEmotionalState]
    /\ heartbeatInterval = 0
    /\ timers = EmptyObject
    /\ emotionalState = DefaultEmotionalState
    /\ lastHeartbeat = 0
    /\ kernel = {"selfHeal"}
    /\ loops = << >>
    /\ clock = 1
    /\ calls = 0
    /\ invokedAt = [r \in {1} |-> 0]
    /\ mockCalls = 0
    /\ listed = << >>
    /\ abandoned = EmptyObject
    /\ throwing = {}
    /\ shown = << >>
    /\ bridge = NewBridge
    /\ model = NewModel
    /\ out = <<Api("bootstrapTaskMatrix", << >>), Emit("task:registered", "heartbeat")>>

(* the caller of bootstrapTaskMatrix: it starts and stops the orchestrator *)
NextBootstrap ==
    \/ start
    \/ stop
    \/ \E handle \in DOMAIN timers : HeartbeatTimer(handle)
    \/ \E l \in DOMAIN loops : Wake(l)
    \/ \E l \in DOMAIN loops, v \in Settlements : RunSettles(l, v)
    \/ \E l \in DOMAIN loops, v \in Settlements : FallbackSettles(l, v)
    \/ TickHb

SpecBootstrap == InitBootstrap /\ [][NextBootstrap]_vars

(* ------------------------- reading the last step ------------------------ *)
IsEmit(e, event, id) == e.kind = "emit" /\ e.event = event /\ e.payload.id = id

IsCall(e, fn, id) == e.kind = "call" /\ e.fn = fn /\ e.id = id

IsSettle(e, fn) == e.kind = "settle" /\ e.fn = fn

ExecutionFailed(e) ==
    e.kind = "settle" /\ ((e.fn = "run" /\ e.value = "reject") \/ e.fn = "timer")

Threw(e) ==
    e.kind = "settle" /\
    \/ e.fn = "condition" /\ e.value = "throw"
    \/ e.fn = "controlConditions" /\ \E k \in DOMAIN e.value : e.value[k] = "throw"
    \/ e.fn = "fallback" /\ e.value = "reject"

LiveLoops == DOMAIN loops \ FreeLoops

CurrentId(l) == heap[loops[l].tasks[loops[l].i]].id

(* ------------------------------- claims -------------------------------- *)

\* C1: within one tick pass the executables are invoked in non-increasing priority
\* order: of two tasks invoked in the same pass, the one invoked first has a priority
\* greater than or equal to that of the later one (a missing priority counts as 0).
C1_PriorityOrder ==
    \A l \in DOMAIN loops : \A i, j \in DOMAIN loops[l].ran :
        i < j => loops[l].ran[i].priority >= loops[l].ran[j].priority

\* a pass that ran a task of priority 2 and then one without priority, although the
\* Map holds them in the other order
C1_Witness ==
    \E l \in DOMAIN loops :
        LET ran == loops[l].ran
        IN  /\ Len(ran) = 2
            /\ ran[1].priority > ran[2].priority
            /\ ran[2].priority = 0
            /\ {ran[1].id, ran[2].id} \subseteq Ids(heap, tasks)
            /\ IndexOf(heap, tasks, ran[2].id) < IndexOf(heap, tasks, ran[1].id)

\* C2: two consecutive invocations of the executable of a task with interval I are at
\* least I apart (up to one tick quantum), whatever the outcome of the earlier one.
C2_IntervalSpacing ==
    [][\A l \in DOMAIN loops' :
          (loops'[l].pc = "run" /\ (l \notin DOMAIN loops \/ loops'[l] # loops[l])) =>
             LET ref == loops'[l].tasks[loops'[l].i]
                 task == heap'[ref]
             IN  (Has(task, "interval") /\ ref \in DOMAIN invokedAt
                                        /\ invokedAt[ref] # 0)
                 => clock' - invokedAt[ref] >= task.interval - Quantum]_vars

\* C3: once unregisterTask(id) has returned, the executable of id is not invoked again
\* unless id is registered again (so an invoked executable belongs to a registered id),
\* and listTasks() does not contain id.
C3_UnregisteredNeverRuns ==
    \A k \in DOMAIN out :
        /\ IsCall(out[k], "run", out[k].id) => out[k].id \in Ids(heap, tasks)
        /\ (out[k].kind = "api" /\ out[k].method = "unregisterTask")
              => out[k].arg \notin Ids(heap, tasks)

TimedOut(id) == out # << >> /\ IsSettle(out[1], "timer") /\ out[1].id = id

PassedOn(l, id) == loops[l].pc \in {"sleep", "done"} \/ CurrentId(l) # id

\* C4: when the timer of the race has fired for a task, the engine emits task:error
\* carrying the timeout error for it and goes on to the tasks that follow it in the pass.
C4_TimeoutReported ==
    \A id \in TaskIds :
        TimedOut(id) ~>
            (/\ \E k \in DOMAIN out :
                   /\ IsEmit(out[k], "task:error", id)
                   /\ out[k].payload.error = "Task timeout"
             /\ PassedOn(out[1].loop, id))

\* C5: every failure of an executable (it rejects, throws or times out) is eventually
\* followed by a task:error event for that task, whatever its fallback does.
C5_FailureSurfaced ==
    \A id \in TaskIds :
        (out # << >> /\ ExecutionFailed(out[1]) /\ out[1].id = id) ~>
            (\E k \in DOMAIN out : IsEmit(out[k], "task:error", id))

ControlStep(l, amended) ==
    LET L == loops[l]
        e == out'[1]
        ref == L.tasks[L.i]
        task == heap[ref]
        invoked == \E k \in DOMAIN out' : IsCall(out'[k], "run", task.id)
        skipped == \E k \in DOMAIN out' :
                      /\ IsEmit(out'[k], "task:skipped", task.id)
                      /\ out'[k].payload.reason = "control_conditions_not_met"
        someFalse == \E k \in DOMAIN e.value : e.value[k] = "false"
        someThrew == \E k \in DOMAIN e.value : e.value[k] = "throw"
        lastRunKept == ref \in DOMAIN heap' =>
                          /\ Has(heap'[ref], "lastRun") <=> Has(task, "lastRun")
                          /\ Has(task, "lastRun") => heap'[ref].lastRun = task.lastRun
    IN  /\ invoked => \A k \in DOMAIN e.value : e.value[k] = "true"
        /\ someFalse => ~invoked /\ lastRunKept
        /\ (someFalse /\ (amended => ~someThrew)) => skipped

InvokesGuarded(l) ==
    (/\ loops'[l].pc = "run"
     /\ loops'[l] # loops[l]
     /\ Has(loops'[l].taskCtx.controlState, "conditions"))
    => (out'[1].kind = "settle" /\ out'[1].fn = "controlConditions" /\ out'[1].loop = l)

\* C7 as stated: a task whose ControlOverride has conditions is executed only if every
\* one of them evaluates true; if any evaluates false the executable is not invoked,
\* lastRun is unchanged and task:skipped (control_conditions_not_met) is emitted.
C7_AsStated ==
    [][\A l \in DOMAIN loops :
          /\ InvokesGuarded(l)
          /\ (out' # << >> /\ IsSettle(out'[1], "controlConditions") /\ out'[1].loop = l)
                => ControlStep(l, FALSE)]_vars

\* C7 as amended: ... and task:skipped is emitted if, besides, none of the conditions
\* threw or rejected.
C7_SkippedUnlessThrown ==
    [][\A l \in DOMAIN loops :
          /\ InvokesGuarded(l)
          /\ (out' # << >> /\ IsSettle(out'[1], "controlConditions") /\ out'[1].loop = l)
                => ControlStep(l, TRUE)]_vars

\* the conditions settled, one of them false and none thrown: skipped
C7_Witness ==
    /\ out # << >>
    /\ IsSettle(out[1], "controlConditions")
    /\ \E k \in DOMAIN out[1].value : out[1].value[k] = "false"
    /\ \E k \in DOMAIN out[1].value : out[1].value[k] = "true"
    /\ \E k \in DOMAIN out : IsEmit(out[k], "task:skipped", out[1].id)

\* C8: a failure of one task (its executable, its condition, a control condition or its
\* fallback throws or rejects) leaves the loop alive on the rest of the pass, and
\* while running is true some loop is there to begin further passes.
C8_FailureIsolated ==
    /\ \A k \in DOMAIN out :
          (ExecutionFailed(out[k]) \/ Threw(out[k]))
             => loops[out[k].loop].pc \in {"cond", "ctrl", "run", "fallback", "sleep"}
    /\ running => LiveLoops # {}

\* C9: at most one tick loop is active, so no two executions are observed at once.
C9_SingleLoop ==
    /\ Cardinality(LiveLoops) <= 1
    /\ Cardinality({l \in DOMAIN loops : loops[l].pc \in {"run", "fallback"}}) <= 1

\* C10: stop() leaves the loop and an execution in flight as they are; the running flag
\* is read only when the sleep between passes ends, where a stopped loop returns
\* without beginning a pass; until then every step of the pass goes on and the
\* settled execution emits its task:ran or task:error.
C10_StopIsCoarse ==
    [][/\ (out' # << >> /\ out'[1].kind = "api" /\ out'[1].method = "stop")
             => (~running' /\ loops' = loops /\ heap' = heap)
       /\ \A l \in DOMAIN loops :
             LET L == loops[l]
                 e == out'[1]
                 id == heap[L.tasks[L.i]].id
             IN  /\ (out' # << >> /\ e.kind = "wake" /\ e.loop = l) =>
                       IF running THEN loops'[l].pc # "done"
                       ELSE loops'[l] = Idle /\ Len(out') = 1
                 /\ (out' # << >> /\ e.kind = "settle" /\ e.loop = l) =>
                       /\ loops'[l].pc # "done"
                       /\ (IsSettle(e, "run") /\ e.value = "resolve") =>
                             IsEmit(out'[2], "task:ran", id)
                       /\ (ExecutionFailed(e)
                              /\ ~Has(heap[L.tasks[L.i]].controlOverride, "fallback")) =>
                             IsEmit(out'[2], "task:error", id)
                       /\ IsSettle(e, "fallback") =>
                             IsEmit(out'[3], "task:error", id)]_vars

\* an execution in flight when stop() was called settles afterwards and emits task:ran
C10_Witness ==
    /\ ~running
    /\ Len(out) >= 2
    /\ IsSettle(out[1], "run") /\ out[1].value = "resolve"
    /\ IsEmit(out[2], "task:ran", out[1].id)

EndsLoop(l) ==
    loops[l].pc \notin {"done", "crashed"} /\ loops'[l].pc \in {"done", "crashed"}

\* C12: while running is true the tick loop goes on: an invocation of loop() ends only
\* where it reads running as false, so that after every sleep a new pass begins and
\* the enabled tasks are taken up again.
C12_LoopRunsWhileRunning ==
    [][\A l \in DOMAIN loops : EndsLoop(l) => ~running]_vars

NoExecutable(task) == ~Has(task, "run") /\ ~Has(task, "handler")

IsApi(o, method) == o # << >> /\ o[1].kind = "api" /\ o[1].method = method

\* C13: registerTask with a definition that has neither run nor handler throws, leaves
\* the registry as it was and emits no event.
C13_NoExecutableRejected ==
    [][(IsApi(out', "registerTask") /\ NoExecutable(out'[1].arg)) =>
          /\ Len(out') = 2
          /\ out'[2].kind = "throw"
          /\ tasks' = tasks
          /\ heap' = heap]_vars

\* a registration without executable was refused while another task was registered
C13_Witness ==
    /\ IsApi(out, "registerTask") /\ NoExecutable(out[1].arg)
    /\ out[2].kind = "throw"
    /\ tasks # << >>
    /\ out[1].arg.id \notin Ids(heap, tasks)

LastRunKept(ref) ==
    ref \in DOMAIN heap' =>
       /\ Has(heap'[ref], "lastRun") <=> Has(heap[ref], "lastRun")
       /\ Has(heap[ref], "lastRun") => heap'[ref].lastRun = heap[ref].lastRun

\* C14: executeTask is entered for a task with a task-level condition only in the step
\* in which its condition has evaluated true in that pass (the executable is then
\* invoked, after the control conditions if it has any); when the condition evaluates
\* false nothing is emitted about the task, its executable is not invoked and its
\* lastRun is unchanged; a later pass asks the condition again.
C14_ConditionGates ==
    [][\A l \in DOMAIN loops :
          LET L == loops[l]
              M == loops'[l]
          IN  /\ (/\ M.pc \in {"run", "ctrl"}
                  /\ M # L
                  /\ L.pc # "ctrl"
                  /\ Has(heap'[M.tasks[M.i]], "condition"))
                 => /\ L.pc = "cond" /\ M.i = L.i /\ M.tasks = L.tasks
                    /\ out'[1] = Settle("condition", l, heap[L.tasks[L.i]].id, "true")
              /\ (/\ out' # << >>
                  /\ IsSettle(out'[1], "condition")
                  /\ out'[1].loop = l)
                 => LET ref == L.tasks[L.i]
                        id == heap[ref].id
                    IN  /\ out'[1].value = "true" =>
                              /\ M.pc \in {"run", "ctrl"} /\ M.i = L.i
                              /\ Len(out') >= 2
                              /\ out'[2].kind = "call" /\ out'[2].id = id
                              /\ out'[2].fn \in {"run", "controlCondition"}
                        /\ out'[1].value = "false" =>
                              /\ \A k \in 2..Len(out') :
                                    /\ out'[k].kind = "emit" => out'[k].payload.id # id
                                    /\ ~IsCall(out'[k], "run", id)
                              /\ LastRunKept(ref)
                              /\ M.pc \in {"sleep", "cond", "ctrl", "run"}
                              /\ M.pc # "sleep" => M.i > L.i]_vars

\* in a pass after the first the condition evaluated true and the executable was
\* invoked in that step
C14_Witness ==
    /\ Len(out) = 2
    /\ out[1].kind = "settle" /\ out[1].fn = "condition" /\ out[1].value = "true"
    /\ IsCall(out[2], "run", out[1].id)
    /\ clock > 1
    /\ \E r \in DOMAIN invokedAt : heap[r].id = out[1].id /\ invokedAt[r] = clock

\* C15: an executable is invoked only for a task that is enabled at that moment, by
\* its enabled flag and by the enabled field of its ControlOverride.
C15_DisabledNeverRuns ==
    [][\A l \in DOMAIN loops :
          (loops'[l].pc = "run" /\ loops'[l] # loops[l]) =>
             LET task == heap'[loops'[l].tasks[loops'[l].i]]
             IN  task.enabled /\ task.controlOverride.enabled]_vars

\* C20: overrideTaskControl(id, partial) on a registered task sets the fields of the
\* ControlOverride that partial has, keeps every other field at its value, changes
\* nothing else of the task and no other task, and emits task:control:updated.
C20_OverrideMerges ==
    [][(IsApi(out', "overrideTaskControl") /\ out'[1].arg[1] \in Ids(heap, tasks)) =>
          LET id == out'[1].arg[1]
              partial == out'[1].arg[2]
              ref == tasks[IndexOf(heap, tasks, id)]
              old == heap[ref].controlOverride
              new == heap'[ref].controlOverride
          IN  /\ DOMAIN new = DOMAIN old \cup DOMAIN partial
              /\ \A k \in DOMAIN partial : new[k] = partial[k]
              /\ \A k \in DOMAIN old \ DOMAIN partial : new[k] = old[k]
              /\ DOMAIN heap'[ref] = DOMAIN heap[ref]
              /\ \A k \in DOMAIN heap[ref] \ {"controlOverride"} :
                    heap'[ref][k] = heap[ref][k]
              /\ DOMAIN heap' = DOMAIN heap
              /\ \A r \in DOMAIN heap \ {ref} : heap'[r] = heap[r]
              /\ tasks' = tasks /\ loops' = loops /\ running' = running
              /\ out' = <<out'[1],
                          Emit("task:control:updated",
                               [taskId |-> id, override |-> partial])>>]_vars

\* the timeout and the priority of a task with a fallback and conditions were
\* overridden: fallback, conditions and enabled are as registered
C20_Witness ==
    /\ IsApi(out, "overrideTaskControl")
    /\ Has(out[1].arg[2], "timeout")
    /\ \E r \in DOMAIN heap :
          /\ heap[r].id = out[1].arg[1]
          /\ Has(heap[r].controlOverride, "fallback")
          /\ heap[r].controlOverride.timeout = out[1].arg[2].timeout
          /\ heap[r].controlOverride.enabled
    /\ Len(out) = 2

RetryValues == {5}

(* the task objects with maxRetries set to n in every ControlOverride *)
SetRetries(h, n) ==
    [r \in DOMAIN h |->
        [h[r] EXCEPT !.controlOverride = Spread(@, [maxRetries |-> n])]]

(* what a step shows: the position of the loop, the functions it invokes and *)
(* the events it emits                                                       *)
Observable(r) ==
    [pc |-> r.loop.pc, i |-> r.loop.i, tasks |-> r.loop.tasks, timer |-> r.loop.timer,
     out |-> [k \in DOMAIN r.out |->
                IF r.out[k].kind = "call"
                THEN [fn |-> r.out[k].fn, f |-> r.out[k].f, id |-> r.out[k].id]
                ELSE r.out[k]]]

\* C19: the engine does not read maxRetries: in every reachable state each step of the
\* loop (beginning a pass, entering executeTask, the catch block, going on to the next
\* task) invokes the same functions, emits the same events and leaves the loop at the
\* same position when the maxRetries of every task is set to another value; and no
\* executable is invoked twice in one pass, so a failed execution is not retried.
C19_RetriesIgnored ==
    /\ (calls < MaxCalls \/ \E l \in DOMAIN loops : loops[l].pc = "sleep") =>
          LET begun == Observable(BeginPass(heap, tasks))
          IN  \A n \in RetryValues :
                 Observable(BeginPass(SetRetries(heap, n), tasks)) = begun
    /\ \A l \in DOMAIN loops :
          LET L == loops[l]
              entered == Observable(ExecuteTask(L, heap))
              invoked == Observable(InvokeRun(L, heap))
              caught == Observable(Catch(L, heap, "error"))
              next == Observable(Advance(L, heap, L.i + 1))
          IN  L.pc \in {"cond", "ctrl", "run", "fallback"} =>
                 \A n \in RetryValues :
                    LET h == SetRetries(heap, n)
                    IN  /\ L.pc = "cond" => Observable(ExecuteTask(L, h)) = entered
                        /\ L.pc = "ctrl" => Observable(InvokeRun(L, h)) = invoked
                        /\ L.pc \in {"ctrl", "run"} =>
                              Observable(Catch(L, h, "error")) = caught
                        /\ Observable(Advance(L, h, L.i + 1)) = next
    /\ \A l \in DOMAIN loops : \A i, j \in DOMAIN loops[l].ran :
          i # j => loops[l].ran[i].id # loops[l].ran[j].id

\* the executable of a task registered with maxRetries 3 has failed and the pass has
\* gone to its fallback without invoking it again
C19_Witness ==
    /\ Len(out) = 2
    /\ ExecutionFailed(out[1])
    /\ IsCall(out[2], "fallback", out[1].id)
    /\ out[2].ctx.controlState.maxRetries = 3
    /\ Len(loops[out[1].loop].ran) = 1

TimerFired(o, handle) == o # << >> /\ o[1].kind = "timer" /\ o[1].handle = handle

HeartbeatDue(handle) == handle \in DOMAIN timers /\ clock >= timers[handle]

\* C11: while the orchestrator runs, the timer set by start() emits a heartbeat every
\* heartbeat period: it is set one period after start(), a firing emits heartbeat with
\* the time of the period's end, sets the next firing one period later and touches no
\* loop, and a timer that is due does fire (or is cleared by stop()) whatever the
\* loops are doing, also with every task disabled or a loop waiting for an executable
\* or a fallback.
C11_HeartbeatEveryPeriod ==
    /\ [][/\ (IsApi(out', "start") /\ ~running) =>
                /\ heartbeatInterval' \in DOMAIN timers'
                /\ timers'[heartbeatInterval'] = clock + HeartbeatMs
          /\ \A handle \in DOMAIN timers :
                TimerFired(out', handle) =>
                   /\ running /\ handle = heartbeatInterval
                   /\ clock = timers[handle]
                   /\ timers' = [timers EXCEPT ![handle] = clock + HeartbeatMs]
                   /\ out'[2] = Emit("heartbeat", [timestamp |-> clock])
                   /\ loops' = loops /\ heap' = heap /\ running' = running]_vars
    /\ \A handle \in 1..MaxCalls :
          HeartbeatDue(handle) ~> (TimerFired(out, handle) \/ handle \notin DOMAIN timers)

\* the heartbeat of the first period is emitted while the loop waits for a fallback
\* that has not settled
C11_Witness ==
    /\ TimerFired(out, heartbeatInterval)
    /\ running
    /\ lastHeartbeat = clock
    /\ \E l \in DOMAIN loops : loops[l].pc = "fallback"
    /\ \A r \in DOMAIN heap : heap[r].id = "b"

\* C17: the heartbeat timer is set exactly while running is true and there is never
\* more than one; stop() clears it in the same step, so the timer emits nothing
\* between stop() and the next start(); start() on a running orchestrator changes
\* nothing.
C17_TimerIffRunning ==
    [][/\ running' <=> (DOMAIN timers' = {heartbeatInterval'})
       /\ ~running' => DOMAIN timers' = {}
       /\ \A handle \in DOMAIN timers : TimerFired(out', handle) => running
       /\ IsApi(out', "stop") => (~running' /\ DOMAIN timers' = {})
       /\ (IsApi(out', "start") /\ running) =>
             /\ Len(out') = 1
             /\ UNCHANGED <<tasks, heap, running, ctx, heartbeatInterval, timers,
                            emotionalState, lastHeartbeat, kernel, loops, clock,
                            invokedAt,
                   mockCalls>>]_vars

\* start(), stop() and start() again while the first loop sleeps: one timer, set a
\* full period after the second start()
C17_Witness ==
    /\ IsApi(out, "start") /\ Len(out) >= 2
    /\ running
    /\ Len(loops) = 2
    /\ clock > 1
    /\ DOMAIN timers = {heartbeatInterval}
    /\ timers[heartbeatInterval] = clock + HeartbeatMs

\* C16: a task registered with interval 5 quanta (500 ms) has its executable invoked
\* at most 3 times while the clock advances 12 quanta (1200 ms) with the engine
\* started.
C16_AtMostThree == mockCalls <= 3

NeverStarted == heartbeatInterval = 0

\* C18: the orchestrator bootstrapTaskMatrix returns is not started: running is false
\* and the registry holds the default 'heartbeat' task and nothing else; and as long
\* as start() has not been called no loop exists, no executable has been invoked, no
\* timer is set and no heartbeat has been emitted, however much time passes.
C18_BootstrapNotStarted ==
    /\ calls = 0 =>
          /\ ~running
          /\ loops = << >>
          /\ Len(tasks) = 1
          /\ Ids(heap, tasks) = {"heartbeat"}
          /\ heap[tasks[1]] = EnhancedTask(BootstrapTask, DefaultEmotionalState)
    /\ NeverStarted =>
          /\ ~running
          /\ loops = << >>
          /\ DOMAIN timers = {}
          /\ lastHeartbeat = 0
          /\ \A r \in DOMAIN heap : ~Has(heap[r], "lastRun") /\ invokedAt[r] = 0
          /\ \A k \in DOMAIN out :
                /\ out[k].kind \notin {"call", "timer"}
                /\ out[k].kind = "emit" => out[k].event # "heartbeat"

\* more than a heartbeat period and more than the interval of the default task have
\* passed since the bootstrap and start() has not been called
C18_Witness ==
    /\ NeverStarted
    /\ clock > 1 + HeartbeatMs
    /\ clock > 1 + BootstrapInterval
    /\ Ids(heap, tasks) = {"heartbeat"}

(* ------------------------- registry identifiers ------------------------ *)
\* C23: task ids are unique in the registry: after any sequence of registerTask and
\* unregisterTask calls the registry holds at most one task per id, and registering
\* an id that is already present replaces the stored definition, at the place the id
\* has, instead of adding a second entry.
C23_IdsUnique ==
    [][/\ Cardinality(Ids(heap', tasks')) = Len(tasks')
       /\ (/\ IsApi(out', "registerTask")
           /\ ~NoExecutable(out'[1].arg)
           /\ out'[1].arg.id \in Ids(heap, tasks)) =>
             LET task == out'[1].arg
                 k == IndexOf(heap, tasks, task.id)
             IN  /\ Len(tasks') = Len(tasks)
                 /\ \A j \in DOMAIN tasks \ {k} : tasks'[j] = tasks[j]
                 /\ heap'[tasks'[k]] = EnhancedTask(task, emotionalState)
                 /\ tasks'[k] # tasks[k]]_vars

\* the second of two calls registered "b" again: the object of the first
\* registration is gone and the registry holds one entry, the new definition
C23_Witness ==
    /\ calls = 2
    /\ IsApi(out, "registerTask")
    /\ out[1].arg.id = "b"
    /\ Len(tasks) = 1
    /\ DOMAIN heap = {2}
    /\ heap[tasks[1]].run = "runB2"

(* ------------------------------- lastRun ------------------------------- *)
Succeeded(o, ref) ==
    /\ o # << >> /\ IsSettle(o[1], "run") /\ o[1].value = "resolve"
    /\ o[1].loop \in DOMAIN loops
    /\ loops[o[1].loop].pc = "run"
    /\ loops[o[1].loop].tasks[loops[o[1].loop].i] = ref

\* C27: the lastRun of a task is written only when an execution of it succeeds: the
\* step in which its executable resolves before the timer sets lastRun to the time of
\* that step and emits task:ran with the result; every other step (a skipped, failed
\* or timed-out attempt, overrideTaskControl, updateEmotionalState, any other call)
\* leaves the lastRun of every task object as it was.
C27_LastRunOnSuccess ==
    [][\A ref \in DOMAIN heap \cap DOMAIN heap' :
          IF Succeeded(out', ref)
          THEN /\ Has(heap'[ref], "lastRun")
               /\ heap'[ref].lastRun = clock'
               /\ Len(out') >= 2
               /\ out'[2] = Emit("task:ran", [id |-> heap[ref].id, result |-> "result"])
          ELSE LastRunKept(ref)]_vars

\* an attempt of a task failed after an earlier execution of it had succeeded: the
\* lastRun is the time of the success, not of the failed attempt
C27_Witness ==
    /\ out # << >>
    /\ IsSettle(out[1], "run") /\ out[1].value = "reject"
    /\ \E ref \in DOMAIN heap :
          /\ heap[ref].id = out[1].id
          /\ Has(heap[ref], "lastRun")
          /\ heap[ref].lastRun < clock
          /\ invokedAt[ref] > heap[ref].lastRun

(* -------------------------- throwing predicates ------------------------ *)
ConditionThrew(e) ==
    e.kind = "settle" /\
    \/ e.fn = "condition" /\ e.value = "throw"
    \/ e.fn = "controlConditions" /\ \E k \in DOMAIN e.value : e.value[k] = "throw"

Registered(o) == IsApi(o, "registerTask") /\ ~NoExecutable(o[1].arg)

\* C22: updateEmotionalState(partial) merges partial into the orchestrator-wide
\* default and republishes the result into the shared context; it leaves the
\* emotionalContext of every registered task as it was (as does every other step),
\* and a task registered later takes the updated default for the fields its own
\* emotionalContext does not set.
C22_EmotionalStateNotRetroactive ==
    [][/\ \A ref \in DOMAIN heap \cap DOMAIN heap' :
             heap'[ref].emotionalContext = heap[ref].emotionalContext
       /\ IsApi(out', "updateEmotionalState") =>
             LET partial == out'[1].arg
             IN  /\ DOMAIN emotionalState' = DOMAIN emotionalState \cup DOMAIN partial
                 /\ \A k \in DOMAIN partial : emotionalState'[k] = partial[k]
                 /\ \A k \in DOMAIN emotionalState \ DOMAIN partial :
                       emotionalState'[k] = emotionalState[k]
                 /\ ctx'.emotionalState = emotionalState'
                 /\ heap' = heap /\ tasks' = tasks
       /\ Registered(out') =>
             LET task == out'[1].arg
                 own == IF Has(task, "emotionalContext") THEN task.emotionalContext
                        ELSE EmptyObject
                 new == heap'[tasks'[IndexOf(heap', tasks', task.id)]].emotionalContext
             IN  /\ DOMAIN new = DOMAIN emotionalState \cup DOMAIN own
                 /\ \A k \in DOMAIN own : new[k] = own[k]
                 /\ \A k \in DOMAIN emotionalState \ DOMAIN own :
                       new[k] = emotionalState[k]
                 /\ emotionalState' = emotionalState]_vars

\* the default was updated between two registrations: the task registered before
\* the update does not have the new field, the one registered after it has the new
\* field next to the fields it set itself
C22_Witness ==
    /\ Has(emotionalState, "customMood")
    /\ ctx.emotionalState = emotionalState
    /\ Registered(out)
    /\ \E r1, r2 \in DOMAIN heap :
          /\ ~Has(heap[r1].emotionalContext, "customMood")
          /\ heap[r2].id = out[1].arg.id
          /\ Has(heap[r2].emotionalContext, "customMood")
          /\ heap[r2].emotionalContext.mood = "analytical"

(* ------------------- passes over tasks of equal priority ---------------- *)
UnregisteredIds == {"a"}

OverriddenIds == {"b"}

OrderInputs ==
    { [id |-> "a", run |-> "runA", priority |-> 1],
      [id |-> "b", run |-> "runB", priority |-> 1],
      [id |-> "a", run |-> "runA2", priority |-> 1],
      BootstrapTask }

PriorityOverrides == { [priority |-> 5] }

(* an orchestrator on which "a" and then "b" have been registered *)
InitOrder ==
    /\ tasks = <<1, 2>>
    /\ heap = [r \in {1, 2} |->
                 EnhancedTask([id |-> IF r = 1 THEN "a" ELSE "b",
                               run |-> IF r = 1 THEN "runA" ELSE "runB",
                               priority |-> 1],
                              DefaultEmotionalState)]
    /\ running = FALSE
    /\ ctx = [emotionalState |-> DefaultEmotionalState]
    /\ heartbeatInterval = 0
    /\ timers = EmptyObject
    /\ emotionalState = DefaultEmotionalState
    /\ lastHeartbeat = 0
    /\ kernel = {"selfHeal"}
    /\ loops = << >>
    /\ clock = 1
    /\ calls = 0
    /\ invokedAt = [r \in {1, 2} |-> 0]
    /\ mockCalls = 0
    /\ listed = << >>
    /\ abandoned = EmptyObject
    /\ throwing = {}
    /\ shown = << >>
    /\ bridge = NewBridge
    /\ model = NewModel
    /\ out = <<Api("registerTask", [id |-> "b", run |-> "runB", priority |-> 1]),
               Emit("task:registered", "b")>>

NextOrder ==
    \/ \E task \in OrderInputs : registerTask(task)
    \/ \E id \in UnregisteredIds : unregisterTask(id)
    \/ \E id \in OverriddenIds, o \in PriorityOverrides : overrideTaskControl(id, o)
    \/ start
    \/ \E l \in DOMAIN loops : Wake(l)
    \/ \E l \in DOMAIN loops : RunSettles(l, "resolve")
    \/ Tick

SpecOrder == InitOrder /\ [][NextOrder]_vars

(* the step in which loop l takes its snapshot of the registry *)
PassBegins(l) ==
    /\ out' # << >>
    /\ l \in DOMAIN loops'
    /\ loops'[l].tasks # << >>
    /\ \/ /\ IsApi(out', "start") /\ Len(out') >= 2
          /\ l \in DOMAIN loops => loops'[l] # loops[l]
       \/ out'[1] = [kind |-> "wake", loop |-> l, running |-> TRUE]

\* C29: within a pass, tasks of equal priority are executed in registry iteration
\* order, the order in which their ids were registered first (registering an id
\* that is present again does not move it): the snapshot a pass takes has the tasks
\* of one priority in the order of the registry, and the pass invokes the tasks of
\* its snapshot from the first to the last.
C29_StableTieBreak ==
    [][\A l \in DOMAIN loops' :
          LET M == loops'[l]
          IN  /\ PassBegins(l) =>
                    \A i, j \in DOMAIN M.tasks :
                       (/\ i < j
                        /\ PriorityOrZero(heap'[M.tasks[i]])
                              = PriorityOrZero(heap'[M.tasks[j]]))
                       => IndexOf(heap', tasks', heap'[M.tasks[i]].id)
                             < IndexOf(heap', tasks', heap'[M.tasks[j]].id)
              /\ (l \in DOMAIN loops /\ ~PassBegins(l) /\ M.tasks # << >>) =>
                    /\ M.tasks = loops[l].tasks
                    /\ M.i >= loops[l].i
                    /\ (M.pc = "run" /\ M # loops[l]) =>
                          /\ M.i > loops[l].i \/ loops[l].pc \in {"cond", "ctrl"}
                          /\ M.ran = Append(loops[l].ran,
                                            [id |-> heap'[M.tasks[M.i]].id,
                                             priority |->
                                                PriorityOrZero(heap'[M.tasks[M.i]])])
       ]_vars

\* "a" was registered again while "b" was present, and the pass ran the new "a"
\* before "b"
C29_Witness ==
    \E l \in DOMAIN loops :
       /\ Len(loops[l].ran) >= 2
       /\ loops[l].ran[1] = [id |-> "a", priority |-> 1]
       /\ loops[l].ran[2] = [id |-> "b", priority |-> 1]
       /\ \E r \in DOMAIN heap : heap[r].run = "runA2" /\ invokedAt[r] > 0

\* C30: the priority that orders a pass is the effective ControlOverride priority of
\* the task, given at registration or through overrideTaskControl: in the snapshot a
\* pass takes, no task stands behind a task whose ControlOverride priority is lower.
C30_OrderedByControlPriority ==
    [][\A l \in DOMAIN loops' :
          PassBegins(l) =>
             \A i, j \in DOMAIN loops'[l].tasks :
                i < j =>
                   heap'[loops'[l].tasks[i]].controlOverride.priority
                      >= heap'[loops'[l].tasks[j]].controlOverride.priority]_vars

(* ------------------------------ gate order ----------------------------- *)
EnabledBy(task, flagOnly) ==
    task.enabled /\ (flagOnly \/ task.controlOverride.enabled)

(* every predicate a step of loop l calls belongs to a task whose earlier gates *)
(* have passed in this pass                                                     *)
GatesShortCircuit(l, flagOnly) ==
    LET M == loops'[l]
        task == heap'[M.tasks[M.i]]
        fromForLoop == EnabledBy(task, flagOnly) /\ ~IntervalGated(task, M.now)
    IN  (/\ l \notin DOMAIN loops \/ M # loops[l]
         /\ M.pc \in {"cond", "ctrl"})
        => IF M.pc = "cond" THEN fromForLoop
           ELSE IF Has(task, "condition")
           THEN /\ l \in DOMAIN loops
                /\ loops[l].pc = "cond" /\ loops[l].i = M.i
                /\ loops[l].tasks = M.tasks
                /\ out'[1] = Settle("condition", l, task.id, "true")
           ELSE fromForLoop

\* C28: the gates are evaluated in the order enabled, interval, task-level condition,
\* control conditions, with short-circuit: the condition of a task is called only
\* when the task is enabled (by its flag and by its ControlOverride) and not
\* interval-gated in that pass, and its control conditions are called only after its
\* condition, if it has one, has evaluated true in that pass.
C28_GateOrder ==
    [][\A l \in DOMAIN loops' : GatesShortCircuit(l, FALSE)]_vars

(* the same with enabled read as the enabled flag of the task alone *)
GateOrderByFlag ==
    [][\A l \in DOMAIN loops' : GatesShortCircuit(l, TRUE)]_vars

(* ------------------------ the CustomModel alone ------------------------ *)
NextModel ==
    \/ modelInitialize
    \/ \E parameters \in ParameterInputs : updateParameters(parameters)
    \/ \E request \in ModelRequests : modelGenerate(request)
    \/ LoadingTimer
    \/ Tick

SpecModel == Init /\ [][NextModel]_vars

(* no initialize() has completed, or a re-initialization that updateParameters *)
(* started has not completed                                                   *)
NotInitialized ==
    \/ model.completed = 0
    \/ \E i \in DOMAIN model.inits : model.inits[i].by = "updateParameters"

InitBridge ==
    /\ tasks = << >>
    /\ heap = EmptyObject
    /\ running = FALSE
    /\ ctx = [emotionalState |-> DefaultEmotionalState]
    /\ heartbeatInterval = 0
    /\ timers = EmptyObject
    /\ emotionalState = DefaultEmotionalState
    /\ lastHeartbeat = 0
    /\ kernel = {"selfHeal"}
    /\ loops = << >>
    /\ clock = 1
    /\ calls = 0
    /\ invokedAt = EmptyObject
    /\ mockCalls = 0
    /\ listed = << >>
    /\ abandoned = EmptyObject
    /\ throwing = {}
    /\ shown = << >>
    /\ \/ /\ bridge = NewBridge
          /\ model = NewModel
          /\ out = << >>
       \/ /\ bridge = [NewBridge EXCEPT !.isInitialized = TRUE,
                                        !.initializationPromise = "resolved"]
          /\ model = [NewModel EXCEPT !.isInitialized = TRUE, !.completed = 1]
          /\ out = <<Api("initializeLLMBridge", BridgeConfig),
                     Emit("model:initialized", [timestamp |-> clock])>>

NextBridge ==
    \/ \E request \in BridgeRequests : generate(request)
    \/ clearCache
    \/ LoadingTimer
    \/ \E k \in DOMAIN bridge.flights : ModelSettles(k)
    \/ Tick

SpecBridge == InitBridge /\ [][NextBridge]_vars

(* the place in the log where a generate call reaches its try block *)
LooksUp(o, k) ==
    /\ k + 2 <= Len(o)
    /\ \/ o[k].kind = "api" /\ o[k].method = "generate"
       \/ o[k].kind = "resume"
    /\ o[k + 1].kind = "emit" /\ o[k + 1].event = "request:started"

RequestOf(e) == IF e.kind = "api" THEN e.arg ELSE e.request

(* the successful calls whose request equals r and whose response is within the TTL *)
Cached(r) ==
    {s \in bridge.successes :
        SameRequest(s.request, r) /\ clock - s.at <= Ttl(bridge.config)}

NextList ==
    \/ \E task \in OrderInputs : registerTask(task)
    \/ \E id \in UnregisteredIds : unregisterTask(id)
    \/ \E id \in OverriddenIds, o \in PriorityOverrides : overrideTaskControl(id, o)
    \/ listTasks
    \/ start
    \/ \E l \in DOMAIN loops : Wake(l)
    \/ \E l \in DOMAIN loops : RunSettles(l, "resolve")
    \/ Tick

SpecList == Init /\ [][NextList]_vars

(* what a list shows of a task: which task it is, its lastRun, its ControlOverride *)
Shows(task) ==
    [id |-> task.id,
     lastRun |-> IF Has(task, "lastRun") THEN task.lastRun ELSE 0,
     controlOverride |-> task.controlOverride]

\* C21: listTasks() returns a point-in-time snapshot: which tasks the returned list
\* holds, and the lastRun and the ControlOverride it shows for each, stay what they
\* were when the list was returned, whatever registerTask, unregisterTask and
\* overrideTaskControl calls and executions of the engine follow.
C21_ListIsSnapshot ==
    /\ Len(listed) = Len(shown)
    /\ \A k \in DOMAIN listed : Shows(heap[listed[k]]) = Shows(shown[k])

(* ------------------- the executables that have not settled --------------- *)
AbandonedOf(inv) == IF inv \in DOMAIN abandoned THEN abandoned[inv] ELSE 0

Racing(inv) ==
    {l \in DOMAIN loops :
        loops[l].pc = "run" /\ Invocation(heap[loops[l].tasks[loops[l].i]]) = inv}

PendingInvocations(inv) == Cardinality(Racing(inv)) + AbandonedOf(inv)

\* C31: at any time at most one invocation of a task's executable is pending: the
\* engine does not invoke the executable of a task again while an earlier invocation
\* of it has not settled, also after the engine has timed that invocation out.
C31_OnePending ==
    \A inv \in {Invocation(heap[r]) : r \in DOMAIN heap} \cup DOMAIN abandoned :
        PendingInvocations(inv) <= 1

(* ------------------ the executable settles after the timer --------------- *)
Forget(inv) ==
    IF abandoned[inv] = 1 THEN [k \in DOMAIN abandoned \ {inv} |-> abandoned[k]]
    ELSE [abandoned EXCEPT ![inv] = @ - 1]

(* a race that still listens to the executable it gave up *)
LateSettlesHeard(inv, v) ==
    /\ inv \in DOMAIN abandoned
    /\ abandoned' = Forget(inv)
    /\ heap' = [r \in DOMAIN heap |->
                  IF v = "resolve" /\ heap[r].id = inv.id
                  THEN Spread(heap[r], [lastRun |-> clock]) ELSE heap[r]]
    /\ out' = <<Settle("late", 0, inv.id, v),
                IF v = "resolve" THEN Emit("task:ran", [id |-> inv.id, result |-> "result"])
                ELSE Emit("task:error", [id |-> inv.id, error |-> "rejected"])>>
    /\ UNCHANGED <<tasks, running, ctx, heartbeatInterval, timers, emotionalState,
                   lastHeartbeat, kernel, loops, clock, calls, invokedAt, mockCalls>>
    /\ UNCHANGED <<listVars, llmVars, throwing>>

(* task.run(taskCtx) settles when Promise.race has already settled by the timer: *)
(* the race has no reaction left for it                                          *)
LateSettles(inv, v) ==
    /\ inv \in DOMAIN abandoned
    /\ abandoned' = Forget(inv)
    /\ out' = <<Settle("late", 0, inv.id, v)>>
    /\ UNCHANGED <<tasks, heap, running, ctx, heartbeatInterval, timers, emotionalState,
                   lastHeartbeat, kernel, loops, clock, calls, invokedAt, mockCalls>>
    /\ UNCHANGED <<listVars, llmVars, throwing>>

RaceInputs ==
    { [id |-> "a", run |-> "runA", priority |-> 2,
       controlOverride |-> [timeout |-> 1, fallback |-> "fbA"]],
      [id |-> "b", run |-> "runB", interval |-> 1,
       controlOverride |-> [timeout |-> 1]] }

NextRace ==
    \/ \E task \in RaceInputs : registerTask(task)
    \/ start
    \/ \E l \in DOMAIN loops : Wake(l)
    \/ \E l \in DOMAIN loops, v \in Settlements : RunSettles(l, v)
    \/ \E l \in DOMAIN loops : TimerWins(l)
    \/ \E l \in DOMAIN loops, v \in Settlements : FallbackSettles(l, v)
    \/ \E inv \in DOMAIN abandoned, v \in Settlements : LateSettles(inv, v)
    \/ Tick

SpecRace == Init /\ [][NextRace]_vars

LateSettlement(o) == o # << >> /\ IsSettle(o[1], "late")

\* C32: when the timer won the race, a later settlement of the executable has no
\* effect on the engine: no task:ran is emitted for that attempt, lastRun is not
\* updated by it, no second task:error is emitted if it rejects, and the registry,
\* the passes in progress and the running flag stay as they were.
C32_LateSettlementDropped ==
    [][LateSettlement(out') =>
          /\ \A k \in DOMAIN out' : out'[k].kind # "emit"
          /\ heap' = heap
          /\ tasks' = tasks
          /\ loops' = loops
          /\ running' = running]_vars

\* an executable that timed out resolves while its task is registered and a pass
\* is in progress
C32_Witness ==
    /\ LateSettlement(out)
    /\ out[1].value = "resolve"
    /\ out[1].id \in Ids(heap, tasks)
    /\ LiveLoops # {}
    /\ \E l \in LiveLoops : loops[l].pc \in {"run", "fallback"}

(* ------------------------ when the fallback is invoked -------------------- *)
FallbackInvoked(l) ==
    /\ l \in DOMAIN loops'
    /\ loops'[l].pc = "fallback"
    /\ l \in DOMAIN loops => loops[l].pc # "fallback"

\* C34: the fallback is invoked only after the executable of the task has been
\* invoked in that attempt and has failed or timed out; it is never invoked for an
\* attempt that succeeded, that was skipped or whose executable was never invoked.
C34_FallbackAfterFailure ==
    [][\A l \in DOMAIN loops' :
          FallbackInvoked(l) =>
             /\ l \in DOMAIN loops
             /\ loops[l].pc = "run"
             /\ \E k \in DOMAIN out' : ExecutionFailed(out'[k])]_vars

(* ------------------------ registering during a pass ----------------------- *)
PassInputs == { [id |-> "a", run |-> "runA2", priority |-> 3] }

(* what an installer does with the orchestrator: it registers these tasks *)
Installers ==
    { << >>, <<[id |-> "c", run |-> "runC", priority |-> 3, plugin |-> "test-plugin"]>> }

plugin(name, fn) ==
    /\ Called
    /\ IF fn = << >>
       THEN /\ out' = <<Api("plugin", name), Call("installer", name, "", EmptyObject),
                        Emit("plugin:registered", name)>>
            /\ UNCHANGED <<tasks, heap, invokedAt>>
       ELSE LET task == fn[1]
                ref == NewRef(heap)
                h1 == [r \in DOMAIN heap \cup {ref} |->
                         IF r = ref THEN EnhancedTask(task, emotionalState)
                         ELSE heap[r]]
            IN  /\ tasks' = MapSet(h1, tasks, task.id, ref)
                /\ heap' = Collect(h1, tasks', loops)
                /\ invokedAt' = Track(heap', Idle)
                /\ out' = <<Api("plugin", name), Call("installer", name, "", EmptyObject),
                            Api("registerTask", task), Emit("task:registered", task.id),
                            Emit("plugin:registered", name)>>
    /\ UNCHANGED <<running, ctx, heartbeatInterval, timers, emotionalState,
                   lastHeartbeat, kernel, loops, clock, mockCalls>>
    /\ UNCHANGED <<listVars, llmVars, raceVars>>

NextPass ==
    \/ \E task \in PassInputs : registerTask(task)
    \/ \E fn \in Installers : plugin("test-plugin", fn)
    \/ start
    \/ \E l \in DOMAIN loops : Wake(l)
    \/ \E l \in DOMAIN loops, v \in Settlements : RunSettles(l, v)
    \/ Tick

SpecPass == InitOrder /\ [][NextPass]_vars

InPass(L) == L.pc \in {"cond", "ctrl", "run", "fallback"}

Held(L) == {L.tasks[k] : k \in DOMAIN L.tasks}

Registers(o) ==
    \E k \in DOMAIN o : o[k].kind = "emit" /\ o[k].event = "task:registered"

\* C35: the set of tasks a pass considers is fixed when the pass starts: while the
\* pass is in progress its array of tasks does not change and the pass only moves
\* forward in it, a registerTask call (by the host, by a running task through
\* ctx.ops or by a plugin installer) leaves the passes in progress as they are and
\* the task it stores is in none of them, and a pass that begins takes the enabled
\* tasks the registry holds at that moment.
C35_PassSetFixed ==
    [][\A l \in DOMAIN loops' :
          /\ (l \in DOMAIN loops /\ InPass(loops[l]) /\ InPass(loops'[l])) =>
                /\ loops'[l].tasks = loops[l].tasks
                /\ loops'[l].i >= loops[l].i
          /\ (Registers(out') /\ l \in DOMAIN loops /\ InPass(loops[l])) =>
                /\ loops'[l] = loops[l]
                /\ \A k \in DOMAIN tasks' :
                      tasks'[k] \notin {tasks[j] : j \in DOMAIN tasks} =>
                         \A i \in loops[l].i..Len(loops[l].tasks) :
                            loops[l].tasks[i] # tasks'[k]
          /\ (InPass(loops'[l]) /\ (l \in DOMAIN loops => ~InPass(loops[l]))) =>
                loops'[l].tasks = SortByPriority(heap', SelectEnabled(heap', tasks'))]_vars

\* a pass went on to its next task after a task was registered that its array does
\* not hold: the executable invoked is not that of the new task
C35_Witness ==
    \E l \in DOMAIN loops :
        /\ loops[l].pc = "run"
        /\ loops[l].i > 1
        /\ out # << >> /\ IsSettle(out[1], "run")
        /\ \E k \in DOMAIN tasks :
              /\ tasks[k] \notin Held(loops[l])
              /\ heap[tasks[k]].enabled
              /\ PriorityOrZero(heap[tasks[k]]) > PriorityOrZero(heap[loops[l].tasks[loops[l].i]])

(* ------------------------- listeners that throw --------------------------- *)
(* the events of an attempt for which the host registers a listener that throws *)
ListenerEvents == {"task:ran", "task:skipped"}

(* this.on(event, listener), inherited from EventEmitter *)
on(event) ==
    /\ Called
    /\ throwing' = throwing \cup {event}
    /\ out' = <<Api("on", event)>>
    /\ UNCHANGED <<tasks, heap, running, ctx, heartbeatInterval, timers, emotionalState,
                   lastHeartbeat, kernel, loops, clock, invokedAt, mockCalls>>
    /\ UNCHANGED <<listVars, llmVars, abandoned>>

EmitInputs ==
    { [id |-> "a", run |-> "runA", priority |-> 2],
      [id |-> "b", run |-> "runB",
       controlOverride |-> [fallback |-> "fbB", conditions |-> <<"c1">>]] }

NextEmit ==
    \/ \E event \in ListenerEvents : on(event)
    \/ \E task \in EmitInputs : registerTask(task)
    \/ start
    \/ \E l \in DOMAIN loops : Wake(l)
    \/ \E l \in DOMAIN loops : \E results \in ResultsOf(l) :
          ControlConditionsSettle(l, results)
    \/ \E l \in DOMAIN loops, v \in Settlements : RunSettles(l, v)
    \/ \E l \in DOMAIN loops, v \in Settlements : FallbackSettles(l, v)
    \/ Tick

SpecEmit == Init /\ [][NextEmit]_vars

(* the events a step emitted, by name *)
RECURSIVE EventsOf(_)
EventsOf(o) ==
    IF o = << >> THEN << >>
    ELSE (IF Head(o).kind = "emit" THEN <<Head(o).event>> ELSE << >>) \o EventsOf(Tail(o))

StepOf(l, o) == o # << >> /\ o[1].kind = "settle" /\ o[1].loop = l

Count(s, S) == Cardinality({k \in DOMAIN s : s[k] \in S})

\* C33: every execution attempt emits at most one of task:ran, task:error and
\* task:skipped: an attempt that emitted task:ran never also emits task:error or a
\* fallback event, and a skipped attempt emits neither task:ran nor task:error.
C33_OneOutcome ==
    [][\A l \in DOMAIN loops :
          StepOf(l, out') =>
             LET attempt == loops[l].events \o EventsOf(out')
             IN  /\ Count(attempt, {"task:ran", "task:error", "task:skipped"}) <= 1
                 /\ Count(attempt, {"task:ran"}) > 0 =>
                       Count(attempt, {"task:fallback:executed",
                                       "task:fallback:failed"}) = 0]_vars

\* the same, while no listener throws
OneOutcomeWhenListenersReturn ==
    [][throwing = {} =>
          \A l \in DOMAIN loops :
             StepOf(l, out') =>
                Count(loops[l].events \o EventsOf(out'),
                      {"task:ran", "task:error", "task:skipped"}) <= 1]_vars

====
